---- MODULE Spec2Model ----
(***************************************************************************)
(* CV Lense resume screener (src/main.py): the document -> candidate       *)
(* pipeline (CVProcessor), the keyword scorer (Ranker) and the candidate   *)
(* list handlers of the application window (CTkApp).                       *)
(*                                                                         *)
(* Representation.  A string is a sequence of code points (97 is "a"), a   *)
(* byte string a sequence of 0..255.  A dict is a function.  A float score *)
(* is held exactly as an integer number of 1/500ths (the diversity bonus   *)
(* is a count divided by 500); a keyword weight is an integer (1 is 1.0).  *)
(* The weights the inputs below can spell are finite integers, so every    *)
(* float operation of the code on them is exact.                           *)
(***************************************************************************)
EXTENDS Integers, Sequences, FiniteSets, TLC

VARIABLES
    hasMiner,     \* HAS_PDFMINER: the module-level capability flag
    queue,        \* CTkApp.__file__queue
    candidates,   \* CTkApp.candidates
    last,         \* the last handler that ran on the candidate list
    prev,         \* CTkApp.candidates as it was before that handler
    call          \* one call of a pure function: its arguments and result

vars == <<hasMiner, queue, candidates, last, prev, call>>


(***************************************************************************)
(* Strings                                                                 *)
(***************************************************************************)

\* "[PARSE_ERROR]", the prefix parse_pdf returns on failure
PARSE_ERROR == <<91, 80, 65, 82, 83, 69, 95, 69, 82, 82, 79, 82, 93>>

\* "[parse_error]", the literal Ranker.score compares the lowercased text to
parse_error == <<91, 112, 97, 114, 115, 101, 95, 101, 114, 114, 111, 114, 93>>

\* "(Unknown)"
Unknown == <<40, 85, 110, 107, 110, 111, 119, 110, 41>>

IsUpper(c) == c >= 65 /\ c <= 90
IsLowerCh(c) == c >= 97 /\ c <= 122
IsAlpha(c) == IsUpper(c) \/ IsLowerCh(c)
IsDigit(c) == c >= 48 /\ c <= 57

\* str.isspace / the regex class \s on the code points below 256
IsSpace(c) == c \in {9, 10, 11, 12, 13, 28, 29, 30, 31, 32, 133, 160}

\* str.lower, on ASCII
LowerCh(c) == IF IsUpper(c) THEN c + 32 ELSE c

lower(s) == [i \in 1..Len(s) |-> LowerCh(s[i])]

startswith(s, p) == Len(s) >= Len(p) /\ SubSeq(s, 1, Len(p)) = p

\* k occurs in t at position i
OccursAt(t, k, i) == i + Len(k) - 1 <= Len(t) /\ SubSeq(t, i, i + Len(k) - 1) = k

RECURSIVE CountFrom(_, _, _)
CountFrom(t, k, i) ==
    IF Len(k) = 0 THEN Len(t) - i + 2
    ELSE IF i + Len(k) - 1 > Len(t) THEN 0
    ELSE IF OccursAt(t, k, i) THEN 1 + CountFrom(t, k, i + Len(k))
    ELSE CountFrom(t, k, i + 1)

\* str.count: the number of non-overlapping occurrences, scanning from the left
count(t, k) == CountFrom(t, k, 1)

RECURSIVE LStrip(_)
LStrip(s) == IF s # <<>> /\ IsSpace(Head(s)) THEN LStrip(Tail(s)) ELSE s

RECURSIVE RStrip(_)
RStrip(s) ==
    IF s # <<>> /\ IsSpace(s[Len(s)]) THEN RStrip(SubSeq(s, 1, Len(s) - 1)) ELSE s

\* str.strip
strip(s) == RStrip(LStrip(s))

\* str.find, 1-based: the index of the first occurrence of k in s from i on, 0 when
\* there is none
RECURSIVE FindFrom(_, _, _)
FindFrom(s, k, i) ==
    IF i + Len(k) - 1 > Len(s) THEN 0
    ELSE IF OccursAt(s, k, i) THEN i ELSE FindFrom(s, k, i + 1)

find(s, k) == FindFrom(s, k, 1)

\* the index of the last occurrence of the character c in s, 0 when there is none
RECURSIVE rfind(_, _)
rfind(s, c) ==
    IF s = <<>> THEN 0
    ELSE IF s[Len(s)] = c THEN Len(s) ELSE rfind(SubSeq(s, 1, Len(s) - 1), c)

\* str.split(sep) with a non-empty separator
RECURSIVE split(_, _)
split(s, sep) ==
    LET i == find(s, sep)
    IN  IF i = 0 THEN <<s>>
        ELSE <<SubSeq(s, 1, i - 1)>> \o split(SubSeq(s, i + Len(sep), Len(s)), sep)

Min(a, b) == IF a <= b THEN a ELSE b

RECURSIVE SumOver(_, _)
SumOver(f, S) ==
    IF S = {} THEN 0
    ELSE LET x == CHOOSE y \in S : TRUE IN f[x] + SumOver(f, S \ {x})

\* sum of the values of a dict
SumValues(f) == SumOver(f, DOMAIN f)

\* the empty dict
EmptyDict == [k \in {} |-> 0]

(***************************************************************************)
(* Ranker                                                                  *)
(***************************************************************************)

\* 2.0: the weight of one occurrence of the role string
ROLE_WEIGHT == 2

\* 500.0: distinct tokens per point of the diversity bonus
DIVERSITY_DIV == 500

\* 5.0: the cap of the diversity bonus
DIVERSITY_CAP == 5

\* Ranker.__init__: keys and role lowercased.  parse_keywords has lowercased the
\* keys already, so no two keys of a profile meet in one lowercased key.
Ranker(keywords, role) ==
    [keywords |-> [k \in {lower(x) : x \in DOMAIN keywords} |->
                      keywords[CHOOSE x \in DOMAIN keywords : lower(x) = k]],
     role |-> lower(role)]

\* re.findall(r"[a-zA-Z]{3,}", t) as a set: the maximal runs of letters of length >= 3
AlphaTokens(t) ==
    { SubSeq(t, p[1], p[2]) :
        p \in { q \in (1..Len(t)) \X (1..Len(t)) :
                  /\ q[2] - q[1] >= 2
                  /\ \A i \in q[1]..q[2] : IsAlpha(t[i])
                  /\ (q[1] = 1 \/ ~IsAlpha(t[q[1] - 1]))
                  /\ (q[2] = Len(t) \/ ~IsAlpha(t[q[2] + 1])) } }

\* the dict built by the keyword loop of Ranker.score
Matched(r, t) ==
    [k \in {x \in DOMAIN r.keywords : count(t, x) # 0} |-> count(t, k) * r.keywords[k]]

\* the role bonus of Ranker.score, in 1/500ths
RoleBonus(r, t) ==
    IF r.role # <<>> THEN ROLE_WEIGHT * DIVERSITY_DIV * count(t, r.role) ELSE 0

\* min(len(tokens) / 500.0, 5.0), in 1/500ths
DiversityBonus(t) == Min(Cardinality(AlphaTokens(t)), DIVERSITY_CAP * DIVERSITY_DIV)

\* the early return tested against the marker as parse_pdf writes it, upper case,
\* on the lowercased text
IsErrorTextUpper(t) == startswith(t, PARSE_ERROR)

\* whether Ranker.score takes its early return
IsErrorText(t) == startswith(t, parse_error)

\* Ranker.score with the keyword contributions taken off the total
scoreLess(r, text) ==
    LET t == lower(text)
    IN  IF IsErrorText(t) THEN [score |-> 0, matched |-> EmptyDict]
        ELSE LET matched == Matched(r, t)
             IN  [score |-> RoleBonus(r, t) + DiversityBonus(t)
                              - DIVERSITY_DIV * SumValues(matched),
                  matched |-> matched]

\* Ranker.score: (total in 1/500ths, matched)
score(r, text) ==
    LET t == lower(text)
    IN  IF IsErrorText(t) THEN [score |-> 0, matched |-> EmptyDict]
        ELSE LET matched == Matched(r, t)
             IN  [score |-> DIVERSITY_DIV * SumValues(matched) + RoleBonus(r, t)
                              + DiversityBonus(t),
                  matched |-> matched]

\* what a call that may raise gives: the value returned, or the message str(e)
\* of the exception raised
Returned(v) == [raised |-> FALSE, value |-> v]
Raised(msg) == [raised |-> TRUE, value |-> msg]

(***************************************************************************)
(* CTkApp.parse_keywords                                                   *)
(***************************************************************************)

RECURSIVE DigitsValue(_, _)
DigitsValue(s, acc) ==
    IF s = <<>> THEN acc ELSE DigitsValue(Tail(s), 10 * acc + (Head(s) - 48))

\* float(v) on a stripped string: [ok, val], ok FALSE where float raises ValueError.
\* Covers the signed decimal integers; the strings drawn below hold no ".", "e", "_"
\* and spell neither "inf" nor "nan", so every other string is one float rejects.
float(v) ==
    LET signed == v # <<>> /\ Head(v) \in {43, 45}
        digits == IF signed THEN Tail(v) ELSE v
    IN  IF digits # <<>> /\ \A i \in 1..Len(digits) : IsDigit(digits[i])
        THEN [ok |-> TRUE,
              val |-> IF signed /\ Head(v) = 45 THEN 0 - DigitsValue(digits, 0)
                      ELSE DigitsValue(digits, 0)]
        ELSE [ok |-> FALSE, val |-> 0]

\* kw[k] = v
Put(kw, k, v) == [x \in (DOMAIN kw) \cup {k} |-> IF x = k THEN v ELSE kw[x]]

\* float(v.strip()) with no except clause around it
WeightOfUncaught(v) ==
    LET f == float(strip(v)) IN IF f.ok THEN Returned(f.val) ELSE Raised(v)

\* the try/except around float(v.strip()): the weight stored for the weight part v,
\* 1.0 where float raises
WeightOf(v) == LET f == float(strip(v)) IN IF f.ok THEN Returned(f.val) ELSE Returned(1)

\* the body of the loop of parse_keywords for one token.  st is [raised, kw]: an
\* exception that leaves the try/except leaves parse_keywords.
IngestToken(st, tok) ==
    LET token == strip(tok)
        i == find(token, <<58>>)
        w == WeightOf(SubSeq(token, i + 1, Len(token)))
    IN  IF st.raised \/ token = <<>> THEN st
        ELSE IF i # 0
             THEN IF w.raised THEN [st EXCEPT !.raised = TRUE]
                  ELSE [st EXCEPT !.kw = Put(st.kw, lower(strip(SubSeq(token, 1, i - 1))),
                                             w.value)]
             ELSE [st EXCEPT !.kw = Put(st.kw, lower(token), 1)]

RECURSIVE IngestAll(_, _)
IngestAll(st, toks) ==
    IF toks = <<>> THEN st ELSE IngestAll(IngestToken(st, Head(toks)), Tail(toks))

\* kw = {}
NoKeywords == [raised |-> FALSE, kw |-> EmptyDict]

\* CTkApp.parse_keywords on the text raw of the keywords entry: [raised, kw]
parse_keywords(raw) == IngestAll(NoKeywords, split(raw, <<44>>))

(***************************************************************************)
(* CVProcessor.parse_pdf                                                   *)
(*                                                                         *)
(* A file is [readable, data, mined]: whether open() succeeds, its bytes,  *)
(* and what the library extractor does on it, [ok, text]: the text it      *)
(* returns (ok) or the message of the exception it raises.  A call that    *)
(* may raise returns [raised, value]: the returned value, or the message   *)
(* str(e) of the exception.                                                *)
(***************************************************************************)

\* b"%PDF"
PDF_MAGIC == <<37, 80, 68, 70>>

\* "(cid:"
CID_OPEN == <<40, 99, 105, 100, 58>>

\* str(e) of the OSError of open() on a file that cannot be read
IO_ERROR_MSG == <<105, 111>>

\* re.sub(r"\s+", " ", s): every maximal run of whitespace becomes one space
RECURSIVE CollapseSpaces(_)
CollapseSpaces(s) ==
    IF s = <<>> THEN <<>>
    ELSE IF IsSpace(Head(s))
         THEN <<32>> \o CollapseSpaces(LStrip(s))
         ELSE <<Head(s)>> \o CollapseSpaces(Tail(s))

\* bytes.decode("utf-8", errors="ignore").  The bytes drawn below hold no lead byte
\* of a multi-byte sequence (0xC2..0xF4), so every byte >= 0x80 is undecodable and
\* dropped, and every other byte is the code point of its character.
decode(bytes) == SelectSeq(bytes, LAMBDA b : b < 128)

\* the test with no upper end of the high range: 0xFE and 0xFF join the run too
IsRunByteHigh(b) == (32 <= b /\ b <= 126) \/ b \in {9, 10, 13} \/ 128 <= b

\* the test of the scavenging loop: the byte joins the current run
IsRunByte(b) == (32 <= b /\ b <= 126) \/ b \in {9, 10, 13} \/ (128 <= b /\ b <= 253)

\* flush(): the decoded run joins chars unless it is empty or all whitespace
flush(chars, buf) ==
    IF buf # <<>> /\ strip(decode(buf)) # <<>> THEN Append(chars, decode(buf)) ELSE chars

\* the scavenging loop and the flush after it: the list chars
RECURSIVE Scavenge(_, _, _)
Scavenge(data, chars, buf) ==
    IF data = <<>> THEN flush(chars, buf)
    ELSE IF IsRunByte(Head(data))
         THEN Scavenge(Tail(data), chars, Append(buf, Head(data)))
         ELSE Scavenge(Tail(data), flush(chars, buf), <<>>)

\* " ".join(chars)
RECURSIVE JoinSpace(_)
JoinSpace(chars) ==
    IF chars = <<>> THEN <<>>
    ELSE IF Len(chars) = 1 THEN chars[1]
    ELSE chars[1] \o <<32>> \o JoinSpace(Tail(chars))

\* the number of digits s starts with
RECURSIVE DigitRun(_)
DigitRun(s) == IF s # <<>> /\ IsDigit(Head(s)) THEN 1 + DigitRun(Tail(s)) ELSE 0

\* the length of the match of \(cid:\d+\) at the head of s, 0 when there is none
CidMatch(s) ==
    LET n == IF startswith(s, CID_OPEN) THEN DigitRun(SubSeq(s, 6, Len(s))) ELSE 0
    IN  IF n > 0 /\ Len(s) >= 6 + n /\ s[6 + n] = 41 THEN 6 + n ELSE 0

\* re.sub(r"\(cid:\d+\)", " ", text)
RECURSIVE StripCid(_)
StripCid(s) ==
    IF s = <<>> THEN <<>>
    ELSE IF CidMatch(s) > 0
         THEN <<32>> \o StripCid(SubSeq(s, CidMatch(s) + 1, Len(s)))
         ELSE <<Head(s)>> \o StripCid(Tail(s))

\* the crude fallback of parse_pdf on the bytes of a PDF
ScavengeText(data) ==
    strip(CollapseSpaces(StripCid(JoinSpace(Scavenge(data, <<>>, <<>>)))))

\* the body of the try block of parse_pdf
ParseBody(miner, f) ==
    IF miner
    THEN IF f.readable /\ f.mined.ok
         THEN Returned(strip(CollapseSpaces(f.mined.text)))
         ELSE Raised(IF f.readable THEN f.mined.text ELSE IO_ERROR_MSG)
    ELSE IF ~f.readable THEN Raised(IO_ERROR_MSG)
    ELSE IF ~startswith(f.data, PDF_MAGIC)
         THEN Returned(strip(CollapseSpaces(decode(f.data))))
         ELSE Returned(ScavengeText(f.data))

\* parse_pdf with no except clause: the exception leaves the call
ParseUnhandled(r) == r

\* the except clause of parse_pdf
ParseHandler(r) ==
    IF r.raised THEN Returned(PARSE_ERROR \o <<32>> \o r.value) ELSE r

\* CVProcessor.parse_pdf on the file f stored at the path
parse_pdf(miner, f) == ParseHandler(ParseBody(miner, f))

(***************************************************************************)
(* CVProcessor.extract_contacts                                            *)
(*                                                                         *)
(* An Optional[str] is [some, val]; a regex match is [found, from, to].    *)
(***************************************************************************)

None == [some |-> FALSE, val |-> <<>>]
Some(v) == [some |-> TRUE, val |-> v]

NoMatch == [found |-> FALSE, from |-> 0, to |-> 0]
Match(i, j) == [found |-> TRUE, from |-> i, to |-> j]

\* the slice of the first 50 tokens
TOKEN_LIMIT == 50

\* the longest name line, guess and context span
NAME_MAX == 60

IsAlnum(c) == IsAlpha(c) \/ IsDigit(c)

\* \w, on ASCII
IsWord(c) == IsAlnum(c) \/ c = 95

\* [A-Za-z0-9._%+-]
IsLocalCh(c) == IsAlnum(c) \/ c \in {46, 95, 37, 43, 45}

\* [A-Za-z0-9.-]
IsDomainCh(c) == IsAlnum(c) \/ c \in {46, 45}

\* [A-Za-z'’-]
IsNameWordCh(c) == IsAlpha(c) \/ c \in {39, 8217, 45}

\* [A-Za-z '’-]
IsNameCh(c) == IsNameWordCh(c) \/ c = 32

\* the end of the maximal run of characters satisfying P that starts at i (i - 1 when empty)
RECURSIVE RunEnd(_, _, _)
RunEnd(P(_), t, i) == IF i <= Len(t) /\ P(t[i]) THEN RunEnd(P, t, i + 1) ELSE i - 1

\* the start of the maximal run of characters satisfying P that ends at j (j + 1 when empty)
RECURSIVE RunStart(_, _, _)
RunStart(P(_), t, j) == IF j >= 1 /\ P(t[j]) THEN RunStart(P, t, j - 1) ELSE j + 1

\* EMAIL_RE around the "@" at position j: the local part is the run of local
\* characters before it; the domain backtracks from the end of the run of domain
\* characters to the last "." that two letters follow, and takes the letters after it
EmailAt(t, j) ==
    LET i == RunStart(IsLocalCh, t, j - 1)
        e == RunEnd(IsDomainCh, t, j + 1)
        dots == {d \in (j + 2)..e : /\ t[d] = 46
                                    /\ d + 2 <= Len(t)
                                    /\ IsAlpha(t[d + 1]) /\ IsAlpha(t[d + 2])}
    IN  IF i <= j - 1 /\ dots # {}
        THEN LET d == CHOOSE x \in dots : \A y \in dots : y <= x
             IN  Match(i, RunEnd(IsAlpha, t, d + 1))
        ELSE NoMatch

\* EMAIL_RE.search(text)
EmailSearch(t) ==
    LET ats == {j \in 1..Len(t) : t[j] = 64 /\ EmailAt(t, j).found}
    IN  IF ats = {} THEN NoMatch
        ELSE EmailAt(t, CHOOSE j \in ats : \A k \in ats : j <= k)

IsSep(t, i) == i <= Len(t) /\ t[i] \in {45, 32}
DigitsAt(t, i, n) == i + n - 1 <= Len(t) /\ \A k \in i..(i + n - 1) : IsDigit(t[k])

\* \d{3}[- ]?\d{3}[- ]?\d{4} at i: the position of its last character, 0 when no match
PhoneCore(t, i) ==
    IF ~DigitsAt(t, i, 3) THEN 0
    ELSE LET a == IF IsSep(t, i + 3) THEN i + 4 ELSE i + 3
         IN  IF ~DigitsAt(t, a, 3) THEN 0
             ELSE LET b == IF IsSep(t, a + 3) THEN a + 4 ELSE a + 3
                  IN  IF DigitsAt(t, b, 4) THEN b + 3 ELSE 0

\* \+\d{n}[- ]? and the core after it, at i
PhonePrefixed(t, i, n) ==
    IF i <= Len(t) /\ t[i] = 43 /\ DigitsAt(t, i + 1, n)
    THEN LET a == i + 1 + n
         IN  IF IsSep(t, a) /\ PhoneCore(t, a + 1) # 0 THEN PhoneCore(t, a + 1)
             ELSE PhoneCore(t, a)
    ELSE 0

\* PHONE_RE at i: the optional country code first, its digits greedy, then without it
PhoneAt(t, i) ==
    IF PhonePrefixed(t, i, 3) # 0 THEN PhonePrefixed(t, i, 3)
    ELSE IF PhonePrefixed(t, i, 2) # 0 THEN PhonePrefixed(t, i, 2)
    ELSE IF PhonePrefixed(t, i, 1) # 0 THEN PhonePrefixed(t, i, 1)
    ELSE PhoneCore(t, i)

\* PHONE_RE.search(text)
PhoneSearch(t) ==
    LET starts == {i \in 1..Len(t) : PhoneAt(t, i) # 0}
    IN  IF starts = {} THEN NoMatch
        ELSE LET i == CHOOSE x \in starts : \A y \in starts : x <= y
             IN  Match(i, PhoneAt(t, i))

\* match.group(0), or None
Group0(t, m) == IF m.found THEN Some(SubSeq(t, m.from, m.to)) ELSE None

\* re.sub(r"[^A-Za-z '’-]", " ", s)
SubNonName(s) == [i \in 1..Len(s) |-> IF IsNameCh(s[i]) THEN s[i] ELSE 32]

\* " ".join(re.sub(r"\s+", " ", text).strip().split()[:50])
HeadTokens(text) ==
    LET c == strip(CollapseSpaces(text))
        tokens == IF c = <<>> THEN <<>> ELSE split(c, <<32>>)
    IN  JoinSpace(SubSeq(tokens, 1, Min(Len(tokens), TOKEN_LIMIT)))

\* one word of NAME_LINE_RE: [A-Z][A-Za-z'’-]+
IsNameWord(w) ==
    Len(w) >= 2 /\ IsUpper(w[1]) /\ \A i \in 2..Len(w) : IsNameWordCh(w[i])

\* NAME_LINE_RE.match(ln): one to four name words, one space between
IsNameLine(ln) ==
    LET words == split(ln, <<32>>)
    IN  Len(words) <= 4 /\ \A i \in 1..Len(words) : IsNameWord(words[i])

\* the test of the loop over head.split("  ") on one segment, stripped
AcceptsLine(ln) ==
    /\ ln # <<>>
    /\ \A i \in 1..Len(ln) : ln[i] # 64 /\ ~IsDigit(ln[i])
    /\ Len(ln) <= NAME_MAX
    /\ IsNameLine(ln)

\* strategy (a): the first accepted segment of the head, <<>> when there is none
NameFromHead(text) ==
    LET segs == split(SubNonName(HeadTokens(text)), <<32, 32>>)
        ok == {i \in 1..Len(segs) : AcceptsLine(strip(segs[i]))}
    IN  IF ok = {} THEN <<>>
        ELSE strip(segs[CHOOSE i \in ok : \A k \in ok : i <= k])

\* "email", matched with re.I
EMAIL_WORD == <<101, 109, 97, 105, 108>>

\* (?:\s+Email\b|@) matches at p
ContextAt(t, p) ==
    \/ p <= Len(t) /\ t[p] = 64
    \/ /\ p <= Len(t) /\ IsSpace(t[p])
       /\ LET q == RunEnd(IsSpace, t, p) + 1
          IN  /\ OccursAt(lower(t), EMAIL_WORD, q)
              /\ (q + 5 > Len(t) \/ ~IsWord(t[q + 5]))

\* re.search(r"(.{0,60}?)(?:\s+Email\b|@)", text, flags=re.I): the span of group 1.
\* The leftmost start wins, and from it the shortest span; "." matches no newline.
ContextSearch(t) ==
    LET spans == {sp \in (1..(Len(t) + 1)) \X (0..Min(NAME_MAX, Len(t))) :
                    /\ sp[1] + sp[2] <= Len(t)
                    /\ \A k \in sp[1]..(sp[1] + sp[2] - 1) : t[k] # 10
                    /\ ContextAt(t, sp[1] + sp[2])}
    IN  IF spans = {} THEN NoMatch
        ELSE LET sp == CHOOSE x \in spans : \A y \in spans :
                           x[1] < y[1] \/ (x[1] = y[1] /\ x[2] <= y[2])
             IN  Match(sp[1], sp[1] + sp[2] - 1)

\* strategy (b): the cleaned span before "Email" or "@", <<>> when not accepted
NameFromContext(text) ==
    LET m == ContextSearch(text)
        guess == IF m.found
                 THEN CollapseSpaces(strip(SubNonName(SubSeq(text, m.from, m.to))))
                 ELSE <<>>
    IN  IF 2 <= Len(guess) /\ Len(guess) <= NAME_MAX THEN guess ELSE <<>>

\* os.path.basename
basename(p) == SubSeq(p, rfind(p, 47) + 1, Len(p))

\* os.path.dirname
dirname(p) ==
    IF rfind(p, 47) = 0 THEN <<>>
    ELSE IF rfind(p, 47) = 1 THEN <<47>> ELSE SubSeq(p, 1, rfind(p, 47) - 1)

\* os.path.splitext(b)[0] of a base name: cut at the last dot unless only dots precede it
SplitextRoot(b) ==
    LET d == rfind(b, 46)
    IN  IF d > 0 /\ \E i \in 1..(d - 1) : b[i] # 46 THEN SubSeq(b, 1, d - 1) ELSE b

\* re.sub(r"[_\-]+", " ", s)
RECURSIVE SubDashes(_)
SubDashes(s) ==
    IF s = <<>> THEN <<>>
    ELSE IF Head(s) \in {95, 45}
         THEN <<32>> \o SubDashes(SubSeq(s, RunEnd(LAMBDA c : c \in {95, 45}, s, 1) + 1, Len(s)))
         ELSE <<Head(s)>> \o SubDashes(Tail(s))

\* the string derived from the fallback file name: the base name without its
\* extension, runs of "_" and "-" made one space, the characters that are no name
\* characters made spaces, the ends stripped
FileBase(fallback_filename) ==
    strip(SubNonName(SubDashes(SplitextRoot(basename(fallback_filename)))))

\* name = base, with no placeholder
UsePlaceholderNever(base) == base

\* name = base or "(Unknown)"
UsePlaceholder(base) == IF base # <<>> THEN base ELSE Unknown

\* strategy (c): the name derived from the fallback file name, or the placeholder
NameFromFile(fallback_filename) == UsePlaceholder(FileBase(fallback_filename))

\* the strategies tried in the order b, a, c
ContextNameFirst(a, b, c) == IF b # <<>> THEN b ELSE IF a # <<>> THEN a ELSE c

\* the name of the first strategy that gives one: a, then b, then c
FirstName(a, b, c) == IF a # <<>> THEN a ELSE IF b # <<>> THEN b ELSE c

\* CVProcessor.extract_contacts
extract_contacts(text, fallback_filename) ==
    [name |-> FirstName(NameFromHead(text), NameFromContext(text),
                        NameFromFile(fallback_filename)),
     email |-> Group0(text, EmailSearch(text)),
     phone |-> Group0(text, PhoneSearch(text))]

(***************************************************************************)
(* The file system, CVProcessor.unzip_pdfs                                 *)
(*                                                                         *)
(* A file system fs maps a path to the file stored there.  A file also     *)
(* carries zip: [ok, members], what zipfile.ZipFile finds in it: its       *)
(* entries in infolist() order, each [filename, file], or (not ok) no      *)
(* archive.                                                                *)
(* Paths are POSIX paths without ".", ".." or doubled separators, so       *)
(* os.path.abspath leaves an absolute path as it is.                       *)
(***************************************************************************)

\* CVProcessor.cache_dir, the directory tempfile.mkdtemp made: "/t"
cache_dir == <<47, 116>>

\* ".pdf"
DOT_PDF == <<46, 112, 100, 102>>

\* ".zip"
DOT_ZIP == <<46, 122, 105, 112>>

endswith(s, suf) ==
    Len(s) >= Len(suf) /\ SubSeq(s, Len(s) - Len(suf) + 1, Len(s)) = suf

\* os.path.join(a, b)
join(a, b) == IF b # <<>> /\ Head(b) = 47 THEN b ELSE a \o <<47>> \o b

NoZip == [ok |-> FALSE, members |-> <<>>]

\* what open() and the extractor meet at a path where no file is
MissingFile ==
    [readable |-> FALSE, data |-> <<>>,
     mined |-> [ok |-> FALSE, text |-> IO_ERROR_MSG], zip |-> NoZip]

\* the file at path p
FileAt(fs, p) == IF p \in DOMAIN fs THEN fs[p] ELSE MissingFile

\* fs with file f written at p
WriteFile(fs, p, f) == [x \in (DOMAIN fs) \cup {p} |-> IF x = p THEN f ELSE fs[x]]

\* fs without the file at p
RemoveFile(fs, p) == [x \in (DOMAIN fs) \ {p} |-> fs[x]]

\* the pass with a handler that passes: the entry whose move raises is left out
UnzipMemberDropping(st, m, failing) ==
    LET dest == join(cache_dir, basename(m.filename))
        src == join(cache_dir, m.filename)
        extracted == WriteFile(st.fs, src, m.file)
    IN  IF ~endswith(lower(m.filename), DOT_PDF) THEN st
        ELSE IF m.filename \in failing
             THEN [fs |-> extracted, out |-> st.out]
        ELSE IF src # dest
             THEN [fs |-> WriteFile(RemoveFile(extracted, src), dest, m.file),
                   out |-> Append(st.out, dest)]
             ELSE [fs |-> extracted, out |-> Append(st.out, dest)]

\* one pass of the loop of unzip_pdfs over the entry m.  st is [fs, out]; failing
\* holds the entry names whose shutil.move raises.  z.extract writes the entry
\* under cache_dir at its own name; the move then puts it at its base name.
UnzipMember(st, m, failing) ==
    LET dest == join(cache_dir, basename(m.filename))
        src == join(cache_dir, m.filename)
        extracted == WriteFile(st.fs, src, m.file)
    IN  IF ~endswith(lower(m.filename), DOT_PDF) THEN st
        ELSE IF m.filename \in failing
             THEN [fs |-> extracted, out |-> Append(st.out, src)]
        ELSE IF src # dest
             THEN [fs |-> WriteFile(RemoveFile(extracted, src), dest, m.file),
                   out |-> Append(st.out, dest)]
             ELSE [fs |-> extracted, out |-> Append(st.out, dest)]

RECURSIVE UnzipMembers(_, _, _)
UnzipMembers(st, members, failing) ==
    IF members = <<>> THEN st
    ELSE UnzipMembers(UnzipMember(st, Head(members), failing), Tail(members), failing)

\* CVProcessor.unzip_pdfs(zip_path) on the file system fs: [raised, fs, out].
\* zipfile.ZipFile raises on a file that cannot be read or is no archive.
unzip_pdfs(fs, zip_path, failing) ==
    LET f == FileAt(fs, zip_path)
    IN  IF ~f.readable \/ ~f.zip.ok THEN [raised |-> TRUE, fs |-> fs, out |-> <<>>]
        ELSE LET st == UnzipMembers([fs |-> fs, out |-> <<>>], f.zip.members, failing)
             IN  [raised |-> FALSE, fs |-> st.fs, out |-> st.out]

(***************************************************************************)
(* The documents on disk and what the user can type                        *)
(***************************************************************************)

\* the longest selection of one file dialog or drop
MaxBatch == 2

\* the longest candidate list a load may build
MaxCands == 3

PdfFile(readable, data, ok, text) ==
    [readable |-> readable, data |-> data, mined |-> [ok |-> ok, text |-> text],
     zip |-> NoZip]

\* a resume: "%PDF", a NUL, "ab a" as bytes; the extractor reads "Al Bo ab a"
GoodPdf ==
    PdfFile(TRUE, PDF_MAGIC \o <<0, 97, 98, 32, 97>>, TRUE,
            <<65, 108, 32, 66, 111, 32, 97, 98, 32, 97>>)

\* a damaged resume: the extractor raises "bad"; its bytes hold "b"
BadPdf == PdfFile(TRUE, PDF_MAGIC \o <<0, 98>>, FALSE, <<98, 97, 100>>)

\* a resume the process may not read
LockedPdf == PdfFile(FALSE, <<>>, FALSE, IO_ERROR_MSG)

\* an entry of the archive: text "a"
EntryA == PdfFile(TRUE, <<97>>, TRUE, <<97>>)

\* an entry of the archive: text "ab"
EntryB == PdfFile(TRUE, <<97, 98>>, TRUE, <<97, 98>>)

\* "/a/c.pdf"
PathGood == <<47, 97, 47, 99, 46, 112, 100, 102>>

\* "/b/c.pdf": the base name of PathGood in another directory
PathBad == <<47, 98, 47, 99, 46, 112, 100, 102>>

\* "/a/d.PDF"
PathLocked == <<47, 97, 47, 100, 46, 80, 68, 70>>

\* "/a/z.zip"
PathZip == <<47, 97, 47, 122, 46, 122, 105, 112>>

\* the archive: "x/e.pdf", "y/e.pdf" (one base name in two directories), "n.txt"
Archive ==
    [readable |-> TRUE, data |-> <<80, 75>>, mined |-> [ok |-> FALSE, text |-> <<98, 97, 100>>],
     zip |-> [ok |-> TRUE,
              members |-> << [filename |-> <<120, 47, 101, 46, 112, 100, 102>>, file |-> EntryA],
                             [filename |-> <<121, 47, 101, 46, 112, 100, 102>>, file |-> EntryB],
                             [filename |-> <<110, 46, 116, 120, 116>>, file |-> EntryA] >>]]

\* the user's disk
Disk ==
    [p \in {PathGood, PathBad, PathLocked, PathZip} |->
        CASE p = PathGood -> GoodPdf
          [] p = PathBad -> BadPdf
          [] p = PathLocked -> LockedPdf
          [] p = PathZip -> Archive]

\* the paths the user can select
Sources == DOMAIN Disk

\* the elements of a sequence
Range(q) == {q[i] : i \in 1..Len(q)}

\* the selections: the non-empty lists of at most MaxBatch paths
Batches == UNION {[1..n -> Sources] : n \in 1..MaxBatch}

\* the entries of the archives on disk
Entries == Range(Archive.zip.members)

\* the names of the entries that unzip_pdfs relocates
PdfEntryNames == {m.filename : m \in {e \in Entries : endswith(lower(e.filename), DOT_PDF)}}

\* what the user types into the keywords entry: "a:2,AB", "a:-1,b:x"
KwInputs ==
    { <<97, 58, 50, 44, 65, 66>>,
      <<97, 58, 45, 49, 44, 98, 58, 120>> }

\* what the user types into the job title entry: "", "B"
RoleInputs == { <<>>, <<66>> }

\* the loop "Expand input selections to cached PDFs" for one selected path p.
\* st is [raised, fs, out]: an exception of unzip_pdfs leaves the loop.
ExpandPath(st, p, failing) ==
    IF st.raised THEN st
    ELSE IF endswith(lower(p), DOT_ZIP)
         THEN LET r == unzip_pdfs(st.fs, p, failing)
              IN  [raised |-> r.raised, fs |-> r.fs, out |-> st.out \o r.out]
    ELSE IF endswith(lower(p), DOT_PDF)
         THEN LET dest == join(cache_dir, basename(p))
              IN  IF FileAt(st.fs, p).readable
                  THEN [st EXCEPT !.fs = WriteFile(st.fs, dest, st.fs[p]),
                                  !.out = Append(st.out, dest)]
                  ELSE [st EXCEPT !.out = Append(st.out, p)]
    ELSE st

RECURSIVE ExpandPaths(_, _, _)
ExpandPaths(st, paths, failing) ==
    IF paths = <<>> THEN st
    ELSE ExpandPaths(ExpandPath(st, Head(paths), failing), Tail(paths), failing)

(***************************************************************************)
(* The calls of the handlers on the documents above, tabulated: each table *)
(* holds the value of the call for every argument the handlers can pass.   *)
(***************************************************************************)

\* the files a path can hold
AllFiles == {Disk[p] : p \in Sources} \cup {m.file : m \in Entries} \cup {MissingFile}

\* the paths a load can put into the queue
AllPaths ==
    Sources \cup {join(cache_dir, basename(p)) : p \in Sources}
            \cup {join(cache_dir, m.filename) : m \in Entries}
            \cup {join(cache_dir, basename(m.filename)) : m \in Entries}

\* self.processor.parse_pdf(path), by the capability flag and the file at the path
Parsed == [miner \in BOOLEAN, f \in AllFiles |-> parse_pdf(miner, f)]

\* the texts a Candidate can hold
AllTexts == {Parsed[x[1], x[2]].value : x \in BOOLEAN \X AllFiles}

\* self.processor.extract_contacts(text, fallback_filename=path)
Contacts == [text \in AllTexts, path \in AllPaths |-> extract_contacts(text, path)]

\* the loop "Expand input selections to cached PDFs" of _load_paths, by the
\* selection and the entries whose shutil.move raises.  A load parses only files it
\* has itself just put into the cache, or files of the user's disk the copy of which
\* failed: what earlier loads left in the cache is never read, and every load is
\* taken on the disk as the user has it.
Expanded ==
    [paths \in {b : b \in Batches}, failing \in {f : f \in SUBSET PdfEntryNames} |->
        ExpandPaths([raised |-> FALSE, fs |-> Disk, out |-> <<>>], paths, failing)]

\* Ranker(self.parse_keywords(), role=self.job_title.get()).score(c.text)
Scored ==
    [kw \in KwInputs, role \in RoleInputs, text \in AllTexts |->
        score(Ranker(parse_keywords(kw).kw, role), text)]

(***************************************************************************)
(* CTkApp: the file queue and the candidate list                           *)
(*                                                                         *)
(* A Candidate is [name, email, phone, path, text, score, matched].  The   *)
(* view state (filtered, the tree, the preview) is written by the handlers *)
(* and never read back into the queue or the candidate list; it is left    *)
(* out.  last.perm tells which object each Candidate of the list is: the   *)
(* index in prev of the Candidate now at each index.                       *)
(***************************************************************************)

\* every path appended to the queue, in the queue already or not
AddAll(q, cps) == q \o cps

\* the loop "Add to queue (avoid duplicates)"
RECURSIVE AddToQueue(_, _)
AddToQueue(q, cps) ==
    IF cps = <<>> THEN q
    ELSE AddToQueue(IF Head(cps) \in Range(q) THEN q ELSE Append(q, Head(cps)), Tail(cps))

\* Candidate(name=name or "(Unknown)", email=email, phone=phone, path=path, text=text)
\* for the contacts c
Candidate(c, path, text) ==
    [name |-> IF c.name # <<>> THEN c.name ELSE Unknown,
     email |-> c.email, phone |-> c.phone, path |-> path, text |-> text,
     score |-> 0, matched |-> EmptyDict]

\* the Candidate _load_paths makes of the text parsed at path
NewCandidate(path, text) == Candidate(Contacts[text, path], path, text)

\* the loop "Parse only new ones and append candidates": have_paths is computed
\* once, before the loop.  st is [raised, cands]: an exception of parse_pdf leaves
\* the loop, to the except clause of _load_paths.
AppendCandidate(st, path, have_paths, fs, miner) ==
    LET r == Parsed[miner, FileAt(fs, path)]
    IN  IF st.raised \/ path \in have_paths THEN st
        ELSE IF r.raised THEN [st EXCEPT !.raised = TRUE]
        ELSE [st EXCEPT !.cands = Append(st.cands, NewCandidate(path, r.value))]

RECURSIVE AppendCandidates(_, _, _, _, _)
AppendCandidates(st, cps, have_paths, fs, miner) ==
    IF cps = <<>> THEN st
    ELSE AppendCandidates(AppendCandidate(st, Head(cps), have_paths, fs, miner),
                          Tail(cps), have_paths, fs, miner)

\* del self.__file__queue[idx] for every selected index: the indexes of the rows
\* that stay
Unselected(n, sel) == SelectSeq([i \in 1..n |-> i], LAMBDA i : i \notin sel)

\* [c for c in self.candidates if c.path in keep]: the indexes of the Candidates kept
KeptIndexes(cands, keep) ==
    SelectSeq([i \in 1..Len(cands) |-> i], LAMBDA i : cands[i].path \in keep)

\* the list of the elements of q at the indexes order
Pick(q, order) == [i \in 1..Len(order) |-> q[order[i]]]

\* the place of index k in a descending order that puts k before the indexes of
\* equal score
RECURSIVE InsertBeforeTies(_, _, _)
InsertBeforeTies(order, k, cands) ==
    IF order = <<>> THEN <<k>>
    ELSE IF cands[Head(order)].score > cands[k].score
         THEN <<Head(order)>> \o InsertBeforeTies(Tail(order), k, cands)
         ELSE <<k>> \o order

\* the place of index k in a stable descending order: after every index whose
\* Candidate's score is not below that of k's
RECURSIVE InsertDesc(_, _, _)
InsertDesc(order, k, cands) ==
    IF order = <<>> THEN <<k>>
    ELSE IF cands[Head(order)].score >= cands[k].score
         THEN <<Head(order)>> \o InsertDesc(Tail(order), k, cands)
         ELSE <<k>> \o order

RECURSIVE SortPrefix(_, _)
SortPrefix(cands, n) ==
    IF n = 0 THEN <<>> ELSE InsertDesc(SortPrefix(cands, n - 1), n, cands)

\* self.candidates.sort(key=lambda x: x.score, reverse=True), as the order it puts
\* the indexes in: list.sort is stable, with reverse=True too
SortOrder(cands) == SortPrefix(cands, Len(cands))

\* the new score added to the one the Candidate holds
AddScore(c, res) == [c EXCEPT !.score = c.score + res.score, !.matched = res.matched]

\* c.score, c.matched = sc, matched
SetScore(c, res) == [c EXCEPT !.score = res.score, !.matched = res.matched]

\* the loop of rank_now over self.candidates
Rescore(cands, kw, role) ==
    [i \in 1..Len(cands) |-> SetScore(cands[i], Scored[kw, role, cands[i].text])]

(***************************************************************************)
(* The handlers                                                            *)
(***************************************************************************)

NoOp ==
    [op |-> "none", batch |-> <<>>, kw |-> <<>>, role |-> <<>>, again |-> FALSE,
     perm |-> <<>>]

NoCall == [fn |-> "none"]

Init ==
    /\ hasMiner \in BOOLEAN
    /\ queue = <<>>
    /\ candidates = <<>>
    /\ last = NoOp
    /\ prev = <<>>
    /\ call = NoCall

\* what _load_paths leaves: ex is the outcome of the expand loop, grown that of the
\* parse loop
Loaded(paths, ex, grown) ==
    /\ Len(grown.cands) <= MaxCands
    /\ prev' = candidates
    /\ last' = [NoOp EXCEPT !.op = IF ex.raised \/ grown.raised THEN "load_error"
                                   ELSE IF ex.out = <<>> THEN "load_nothing"
                                   ELSE "load",
                            !.batch = paths,
                            !.perm = [i \in 1..Len(candidates) |-> i]]
    /\ IF ex.raised \/ ex.out = <<>>
       THEN UNCHANGED <<queue, candidates>>
       ELSE /\ queue' = AddToQueue(queue, ex.out)
            /\ candidates' = grown.cands
    /\ UNCHANGED <<hasMiner, call>>

\* the parse loop of _load_paths after the expand loop has ended in ex
Grown(ex) ==
    AppendCandidates([raised |-> FALSE, cands |-> candidates], ex.out,
                     {candidates[i].path : i \in 1..Len(candidates)}, ex.fs, hasMiner)

\* _load_paths after the expand loop has ended in ex
LoadExpanded(paths, ex) == Loaded(paths, ex, Grown(ex))

\* CTkApp._load_paths(paths); the shutil.move of the entries in failing raises
LoadPaths(paths, failing) == LoadExpanded(paths, Expanded[paths, failing])

Load ==
    \E paths \in Batches :
        \E failing \in SUBSET {n \in PdfEntryNames : PathZip \in Range(paths)} :
            LoadPaths(paths, failing)

\* CTkApp.remove_selected_from_queue with the rows sel selected
RemoveSelected ==
    \E sel \in SUBSET (1..Len(queue)) :
        /\ sel # {}
        /\ queue' = Pick(queue, Unselected(Len(queue), sel))
        /\ candidates' = Pick(candidates, KeptIndexes(candidates, Range(queue')))
        /\ last' = [NoOp EXCEPT !.op = "remove",
                                !.perm = KeptIndexes(candidates, Range(queue'))]
        /\ prev' = candidates
        /\ UNCHANGED <<hasMiner, call>>

\* CTkApp.clear_queue
ClearQueue ==
    /\ queue' = <<>>
    /\ candidates' = <<>>
    /\ last' = [NoOp EXCEPT !.op = "clear"]
    /\ prev' = candidates
    /\ UNCHANGED <<hasMiner, call>>

\* CTkApp.rank_now, with kw_var in the keywords entry and job_title in the job
\* title entry
RankWith(kw_var, job_title) ==
    LET scored == Rescore(candidates, kw_var, job_title)
    IN  /\ candidates # <<>>
        /\ candidates' = Pick(scored, SortOrder(scored))
        /\ last' = [op |-> "rank", batch |-> <<>>, kw |-> kw_var, role |-> job_title,
                    again |-> last.op = "rank" /\ last.kw = kw_var /\ last.role = job_title,
                    perm |-> SortOrder(scored)]
        /\ prev' = candidates
        /\ UNCHANGED <<hasMiner, queue, call>>

RankNow == \E kw_var \in KwInputs, job_title \in RoleInputs : RankWith(kw_var, job_title)

Next == Load \/ RemoveSelected \/ ClearQueue \/ RankNow

Spec == Init /\ [][Next]_vars

(***************************************************************************)
(* Ranker.score called on its own                                          *)
(***************************************************************************)

\* the longest text after the prefix
MaxText == 4

\* the strings over the characters A of length at most n
Strs(A, n) == UNION {[1..k -> A] : k \in 0..n}

\* the characters of the texts: "a", "B", " "
TextChars == {97, 66, 32}

\* how a text begins: with nothing, with the marker of parse_pdf, with the marker
\* in lower case
TextPrefixes == {<<>>, PARSE_ERROR, parse_error}

ScoreTexts == {x[1] \o x[2] : x \in TextPrefixes \X Strs(TextChars, MaxText)}

\* the keys of the profiles: "a", "ab"
ProfileKeys == {<<97>>, <<97, 98>>}

\* the weights of the profiles
ProfileWeights == {0 - 1, 0, 2}

ScoreProfiles == UNION {[K -> ProfileWeights] : K \in SUBSET ProfileKeys}

\* the app state of the specifications that call one function on its own
Idle ==
    /\ hasMiner = FALSE
    /\ queue = <<>>
    /\ candidates = <<>>
    /\ last = NoOp
    /\ prev = <<>>

InitScore ==
    /\ Idle
    /\ \E kw \in ScoreProfiles, role \in RoleInputs, text \in ScoreTexts :
          call = [fn |-> "score", keywords |-> kw, role |-> role, text |-> text,
                  done |-> FALSE, result |-> [score |-> 0, matched |-> EmptyDict]]

\* Ranker(keywords, role).score(text)
ScoreCall ==
    /\ call.fn = "score"
    /\ ~call.done
    /\ call' = [call EXCEPT !.done = TRUE,
                            !.result = score(Ranker(call.keywords, call.role), call.text)]
    /\ UNCHANGED <<hasMiner, queue, candidates, last, prev>>

NextScore == ScoreCall

SpecScore == InitScore /\ [][NextScore]_vars

ScoreDone == call.fn = "score" /\ call.done

\* C1: a text that begins with the error marker "[PARSE_ERROR]" scores 0 with no
\* matched keyword, whatever the profile and the role
C1_ErrorTextScoresZero ==
    ScoreDone /\ startswith(call.text, PARSE_ERROR)
        => call.result.score = 0 /\ call.result.matched = EmptyDict

\* an error text that holds a keyword and the role has been scored
C1_Witness ==
    /\ ScoreDone
    /\ startswith(call.text, PARSE_ERROR)
    /\ call.role # <<>>
    /\ count(lower(call.text), lower(call.role)) > 0
    /\ \E k \in DOMAIN call.keywords :
          count(lower(call.text), k) > 0 /\ call.keywords[k] > 0

\* the profile of the call with the weight of keyword k set to w
Reweighted(k, w) == [call.keywords EXCEPT ![k] = w]

\* C8: with the text, the role and the other weights fixed, a larger weight for a
\* keyword never gives a lower score
C8_MonotoneInWeight ==
    ScoreDone =>
        \A k \in DOMAIN call.keywords : \A w \in ProfileWeights :
            w > call.keywords[k] =>
                score(Ranker(Reweighted(k, w), call.role), call.text).score
                    >= call.result.score

\* a text is scored in which a keyword occurs, so that a larger weight gives a
\* strictly higher score
C8_Witness ==
    /\ ScoreDone
    /\ \E k \in DOMAIN call.keywords : \E w \in ProfileWeights :
          /\ w > call.keywords[k]
          /\ score(Ranker(Reweighted(k, w), call.role), call.text).score
                > call.result.score

\* the keywords of the call's profile that occur in the lowercased text
Occurring == {k \in DOMAIN call.keywords : count(lower(call.text), k) > 0}

TokenCount == Cardinality(AlphaTokens(lower(call.text)))

\* the occurrences of the lowercased role in the call's lowercased text, 0 when no
\* role is set
RoleCount == IF call.role # <<>> THEN count(lower(call.text), lower(call.role)) ELSE 0

MaxRaw == 5

\* the characters of the keywords entry: "a", "B", ",", ":", "2", "-", " "
KwChars == {97, 66, 44, 58, 50, 45, 32}

InitKw ==
    /\ Idle
    /\ \E raw \in Strs(KwChars, MaxRaw) :
          call = [fn |-> "parse_keywords", raw |-> raw, todo |-> split(raw, <<44>>),
                  token |-> None, st |-> NoKeywords, done |-> FALSE]

\* one pass of "for token in raw.split(',')"
KwToken ==
    /\ call.fn = "parse_keywords"
    /\ ~call.done
    /\ call.todo # <<>>
    /\ call' = [call EXCEPT !.todo = Tail(call.todo),
                            !.token = Some(Head(call.todo)),
                            !.st = IngestToken(call.st, Head(call.todo))]
    /\ UNCHANGED <<hasMiner, queue, candidates, last, prev>>

\* return kw
KwReturn ==
    /\ call.fn = "parse_keywords"
    /\ ~call.done
    /\ call.todo = <<>>
    /\ call' = [call EXCEPT !.done = TRUE]
    /\ UNCHANGED <<hasMiner, queue, candidates, last, prev>>

NextKw == KwToken \/ KwReturn

SpecKw == InitKw /\ [][NextKw]_vars

\* the token the loop has just taken, stripped
KwTok == strip(call.token.val)

\* where its first ":" is, 0 if it has none
KwColon == find(KwTok, <<58>>)

\* the keyword of the token
KwKey ==
    IF KwColon = 0 THEN lower(KwTok) ELSE lower(strip(SubSeq(KwTok, 1, KwColon - 1)))

\* the weight part of the token, stripped
KwWeightPart == strip(SubSeq(KwTok, KwColon + 1, Len(KwTok)))

\* C10: parse_keywords never raises, every keyword it stores is lowercased, and a
\* non-empty token is stored under its lowercased keyword with weight 1.0 when it
\* carries no weight or a weight that is no number
C10_KeywordDefaults ==
    call.fn = "parse_keywords" =>
        /\ ~call.st.raised
        /\ \A k \in DOMAIN call.st.kw : k = lower(k)
        /\ call.token.some /\ KwTok # <<>> =>
              /\ KwKey \in DOMAIN call.st.kw
              /\ KwColon = 0 => call.st.kw[KwKey] = 1
              /\ KwColon # 0 /\ ~float(KwWeightPart).ok => call.st.kw[KwKey] = 1

\* the loop has taken a token with an upper-case keyword and a weight that is no
\* number
C10_Witness ==
    /\ call.fn = "parse_keywords"
    /\ call.token.some
    /\ KwColon # 0
    /\ KwWeightPart # <<>>
    /\ ~float(KwWeightPart).ok
    /\ KwKey # SubSeq(KwTok, 1, KwColon - 1)
    /\ call.st.kw[KwKey] = 1

\* C11: no weight parse_keywords produces and the Ranker constructor stores is
\* negative
C11_WeightsNonNegative ==
    call.fn = "parse_keywords" =>
        /\ \A k \in DOMAIN call.st.kw : call.st.kw[k] >= 0
        /\ \A k \in DOMAIN Ranker(call.st.kw, <<>>).keywords :
              Ranker(call.st.kw, <<>>).keywords[k] >= 0

(***************************************************************************)
(* CVProcessor.parse_pdf called on its own                                 *)
(***************************************************************************)

\* the most bytes of a file after its first four
MaxData == 3

\* the bytes of the files: NUL, TAB, " ", "a", a continuation byte, 0xFF
ParseBytes == {0, 9, 32, 97, 128, 255}

\* what the library extractor does: "" or " a\t b " returned, "bad" raised
MinedOutcomes ==
    { [ok |-> TRUE, text |-> <<>>],
      [ok |-> TRUE, text |-> <<32, 97, 9, 32, 98, 32>>],
      [ok |-> FALSE, text |-> <<98, 97, 100>>] }

ParseFiles ==
    { [readable |-> x[1], data |-> x[2] \o x[3], mined |-> x[4], zip |-> NoZip] :
        x \in BOOLEAN \X {<<>>, PDF_MAGIC} \X Strs(ParseBytes, MaxData) \X MinedOutcomes }

InitParse ==
    /\ Idle
    /\ \E miner \in BOOLEAN, f \in ParseFiles :
          call = [fn |-> "parse_pdf", miner |-> miner, file |-> f, done |-> FALSE,
                  result |-> Returned(<<>>)]

\* CVProcessor.parse_pdf(pdf_path), file the file at pdf_path
ParseCall ==
    /\ call.fn = "parse_pdf"
    /\ ~call.done
    /\ call' = [call EXCEPT !.done = TRUE, !.result = parse_pdf(call.miner, call.file)]
    /\ UNCHANGED <<hasMiner, queue, candidates, last, prev>>

NextParse == ParseCall

SpecParse == InitParse /\ [][NextParse]_vars

ParseDone == call.fn = "parse_pdf" /\ call.done

\* whether the extraction of the call fails: the file cannot be opened, or the
\* library extractor, when it is the one used, raises
ParseFails == ~call.file.readable \/ (call.miner /\ ~call.file.mined.ok)

\* the description of that failure
ParseFailure == IF ~call.file.readable THEN IO_ERROR_MSG ELSE call.file.mined.text

\* C2: parse_pdf never raises; when the extraction fails it returns the error
\* marker "[PARSE_ERROR]", a space and the description of the failure
C2_ParseNeverRaises ==
    ParseDone =>
        /\ ~call.result.raised
        /\ ParseFails => /\ startswith(call.result.value, PARSE_ERROR)
                         /\ call.result.value = PARSE_ERROR \o <<32>> \o ParseFailure

\* parse_pdf has returned from a call in which the library extractor raised on a
\* file that can be read
C2_Witness ==
    /\ ParseDone
    /\ call.miner
    /\ call.file.readable
    /\ ~call.file.mined.ok
    /\ startswith(call.result.value, PARSE_ERROR)

\* the call takes the byte-scavenging fallback: no library extractor, a file that
\* can be read and begins with the PDF magic
Scavenged ==
    /\ ParseDone
    /\ ~call.miner
    /\ call.file.readable
    /\ startswith(call.file.data, PDF_MAGIC)

\* the bytes that are accumulated: 0x20-0x7E, 0x09, 0x0A, 0x0D, 0x80-0xFD
InRun(b) == (32 <= b /\ b <= 126) \/ b \in {9, 10, 13} \/ (128 <= b /\ b <= 253)

\* the bytes of the call's file with a space in the place of every byte that is not
\* accumulated
Separated ==
    [i \in 1..Len(call.file.data) |->
        IF InRun(call.file.data[i]) THEN call.file.data[i] ELSE 32]

\* C16: the byte-scavenging fallback returns the accumulated bytes decoded, with
\* every byte outside 0x20-0x7E, 0x09, 0x0A, 0x0D, 0x80-0xFD ending the run and
\* giving nothing but the one space that separates the runs on its two sides
C16_ScavengerRuns ==
    Scavenged =>
        call.result.value = strip(CollapseSpaces(StripCid(decode(Separated))))

\* the fallback has returned two letters apart for a file in which one byte that is
\* not accumulated stands between them
C16_Witness ==
    /\ Scavenged
    /\ \E i \in 1..(Len(call.file.data) - 2) :
          /\ call.file.data[i] = 97
          /\ ~InRun(call.file.data[i + 1])
          /\ call.file.data[i + 2] = 97
    /\ endswith(call.result.value, <<97, 32, 97>>)

(***************************************************************************)
(* CVProcessor.unzip_pdfs called on its own                                *)
(***************************************************************************)

\* the most entries of an archive
MaxMembers == 3

\* the entry names: "e.pdf", "x/e.pdf", "y/e.pdf", "x/f.PDF", "n.txt"
ZipNames ==
    { <<101, 46, 112, 100, 102>>,
      <<120, 47, 101, 46, 112, 100, 102>>,
      <<121, 47, 101, 46, 112, 100, 102>>,
      <<120, 47, 102, 46, 80, 68, 70>>,
      <<110, 46, 116, 120, 116>> }

\* the entry at position i of an archive: its content tells the position
ZipEntry(name, i) == [filename |-> name, file |-> PdfFile(TRUE, <<48 + i>>, TRUE, <<48 + i>>)]

\* the archives: what zipfile.ZipFile meets at zip_path
ZipFiles ==
    { [readable |-> TRUE, data |-> <<80, 75>>, mined |-> [ok |-> FALSE, text |-> <<>>],
       zip |-> z] :
        z \in {NoZip} \cup
              { [ok |-> TRUE, members |-> [i \in 1..Len(names) |-> ZipEntry(names[i], i)]] :
                  names \in Strs(ZipNames, MaxMembers) } }

IsPdfEntry(m) == endswith(lower(m.filename), DOT_PDF)

InitZip ==
    /\ Idle
    /\ \E z \in ZipFiles :
          \E failing \in SUBSET {m.filename : m \in {e \in Range(z.zip.members) : IsPdfEntry(e)}} :
              call = [fn |-> "unzip_pdfs", archive |-> z, failing |-> failing,
                      done |-> FALSE,
                      result |-> [raised |-> FALSE, fs |-> EmptyDict, out |-> <<>>]]

\* CVProcessor.unzip_pdfs(zip_path) with the archive at zip_path and an empty
\* cache directory
ZipCall ==
    /\ call.fn = "unzip_pdfs"
    /\ ~call.done
    /\ call' = [call EXCEPT !.done = TRUE,
                            !.result = unzip_pdfs([p \in {PathZip} |-> call.archive],
                                                  PathZip, call.failing)]
    /\ UNCHANGED <<hasMiner, queue, candidates, last, prev>>

NextZip == ZipCall

SpecZip == InitZip /\ [][NextZip]_vars

ZipDone == call.fn = "unzip_pdfs" /\ call.done

\* the place in the returned list of the path of the entry at position i
OutIndex(i) == Cardinality({k \in 1..i : IsPdfEntry(call.archive.zip.members[k])})

\* the PDF entries of the archive, by position
PdfEntries == {i \in 1..Len(call.archive.zip.members) : IsPdfEntry(call.archive.zip.members[i])}

\* the entry at position i is one whose relocation is refused
MoveFails(i) ==
    LET m == call.archive.zip.members[i]
    IN  /\ m.filename \in call.failing
        /\ join(cache_dir, m.filename) # join(cache_dir, basename(m.filename))

\* C18: unzip_pdfs returns one path for each entry whose name ends in ".pdf" in
\* any case, in the order of the entries, and none for another entry; the path
\* is the entry's place in the cache directory under its base name, or, when
\* the move there is refused, the place it was extracted to, where the file is
C18_OnePathPerPdfEntry ==
    (ZipDone /\ ~call.result.raised) =>
        /\ Len(call.result.out) = Cardinality(PdfEntries)
        /\ \A i \in PdfEntries :
              LET m == call.archive.zip.members[i]
                  p == call.result.out[OutIndex(i)]
              IN  IF MoveFails(i)
                  THEN /\ p = join(cache_dir, m.filename)
                       /\ FileAt(call.result.fs, p).readable
                  ELSE p = join(cache_dir, basename(m.filename))

\* an archive with an entry that is no PDF, a PDF entry that is relocated and a
\* PDF entry with an upper-case suffix whose relocation is refused
C18_Witness ==
    /\ ZipDone
    /\ ~call.result.raised
    /\ Len(call.result.out) = 2
    /\ \E i \in 1..Len(call.archive.zip.members) : ~IsPdfEntry(call.archive.zip.members[i])
    /\ \E i \in PdfEntries : ~MoveFails(i)
    /\ \E i \in PdfEntries :
          /\ MoveFails(i)
          /\ endswith(call.archive.zip.members[i].filename, <<46, 80, 68, 70>>)

\* C5: of two PDF entries of one archive with the same base name in different
\* directories both are files after the extraction, each with its own content, and
\* the returned list names two distinct paths for them
C5_SameBasenameBothSurvive ==
    ZipDone /\ ~call.result.raised =>
        LET ms == call.archive.zip.members
            out == call.result.out
        IN  \A i, j \in 1..Len(ms) :
                /\ i < j
                /\ IsPdfEntry(ms[i]) /\ IsPdfEntry(ms[j])
                /\ basename(ms[i].filename) = basename(ms[j].filename)
                /\ dirname(ms[i].filename) # dirname(ms[j].filename)
                => /\ out[OutIndex(i)] # out[OutIndex(j)]
                   /\ FileAt(call.result.fs, out[OutIndex(i)]) = ms[i].file
                   /\ FileAt(call.result.fs, out[OutIndex(j)]) = ms[j].file

(***************************************************************************)
(* The claims on the handlers                                              *)
(***************************************************************************)

C4_PathsUnique ==
    \A i, j \in 1..Len(candidates) : i # j => candidates[i].path # candidates[j].path

\* the selected PDF files of the last load that parse_pdf fails on
FailedOfBatch ==
    { p \in Range(last.batch) :
        /\ endswith(lower(p), DOT_PDF)
        /\ ParseBody(hasMiner, Disk[p]).raised }

\* the paths _load_paths can give the document selected at p
PathsOf(p) == {p, join(cache_dir, basename(p))}

\* C6: after a load every selected PDF that fails to parse has a Candidate whose
\* text begins with the error marker, and after a ranking pass every Candidate with
\* such a text is still in the list, with score 0
C6_FailedDocumentKept ==
    /\ last.op = "load" =>
          \A p \in FailedOfBatch :
              \E i \in 1..Len(candidates) :
                  /\ candidates[i].path \in PathsOf(p)
                  /\ startswith(candidates[i].text, PARSE_ERROR)
    /\ last.op = "rank" =>
          \A k \in 1..Len(prev) :
              startswith(prev[k].text, PARSE_ERROR) =>
                  \E i \in 1..Len(candidates) :
                      /\ last.perm[i] = k
                      /\ candidates[i].text = prev[k].text
                      /\ candidates[i].score = 0

\* the fields of a Candidate that tell the document
Document(c) ==
    [name |-> c.name, email |-> c.email, phone |-> c.phone, path |-> c.path,
     text |-> c.text]

\* C7: a step of rank_now leaves the queue alone and keeps every Candidate, with
\* its name, email, phone, path and text; a pass with the profile of the pass just
\* before it leaves the list as it is
C7_RankChangesOnlyScores ==
    [][last'.op = "rank" =>
          /\ queue' = queue
          /\ hasMiner' = hasMiner
          /\ Len(candidates') = Len(candidates)
          /\ Len(last'.perm) = Len(candidates)
          /\ {last'.perm[i] : i \in 1..Len(candidates)} = 1..Len(candidates)
          /\ \A i \in 1..Len(candidates) :
                Document(candidates'[i]) = Document(candidates[last'.perm[i]])
          /\ last'.again => candidates' = candidates]_vars

\* a second pass with one profile has run on a list in which a Candidate has a
\* score above 0 and a matched keyword, and another has a text with the error marker
C7_Witness ==
    /\ last.op = "rank"
    /\ last.again
    /\ \E i \in 1..Len(candidates) :
          candidates[i].score > 0 /\ candidates[i].matched # EmptyDict
    /\ \E i \in 1..Len(candidates) : startswith(candidates[i].text, PARSE_ERROR)

\* C13: the name, email and phone of a Candidate whose text begins with the error
\* marker are not taken from the error text: the name is the one the file name
\* gives, or the placeholder, and there is no email and no phone
C13_ErrorTextNotContent ==
    \A i \in 1..Len(candidates) :
        startswith(candidates[i].text, PARSE_ERROR) =>
            /\ candidates[i].name \in {NameFromFile(candidates[i].path), Unknown}
            /\ candidates[i].email = None
            /\ candidates[i].phone = None

\* a Candidate's text was parsed: it does not begin with the error marker
IsParsed(c) == ~startswith(c.text, PARSE_ERROR)

\* C14: after a ranking pass no Candidate whose text begins with the error marker
\* has a higher score than a Candidate whose text was parsed
C14_ErrorNeverOutscores ==
    last.op = "rank" =>
        \A i, j \in 1..Len(candidates) :
            ~IsParsed(candidates[i]) /\ IsParsed(candidates[j])
                => candidates[i].score <= candidates[j].score

\* C19: the paths of the queue are the paths of the Candidates, and no path is in
\* the queue twice
C19_QueueMatchesCandidates ==
    /\ Range(queue) = {candidates[i].path : i \in 1..Len(candidates)}
    /\ \A i, j \in 1..Len(queue) : i # j => queue[i] # queue[j]

\* rows have been removed from a queue of several paths, and a path with its
\* Candidates is left
C19_Witness ==
    /\ last.op = "remove"
    /\ Len(prev) >= 2
    /\ queue # <<>>
    /\ Len(candidates) < Len(prev)
    /\ candidates # <<>>

(***************************************************************************)
(* CVProcessor.extract_contacts called on its own                          *)
(***************************************************************************)

\* the longest text before the suffix
MaxContact == 4

\* the characters of the texts: "A", "l", " ", "@", "1"
ContactChars == {65, 108, 32, 64, 49}

\* how a text ends: with nothing, with " Email"
ContactSuffixes == {<<>>, <<32, 69, 109, 97, 105, 108>>}

ContactTexts == {x[1] \o x[2] : x \in Strs(ContactChars, MaxContact) \X ContactSuffixes}

\* "john_smith_resume.pdf"
ResumeFile ==
    <<106, 111, 104, 110, 95, 115, 109, 105, 116, 104, 95,
      114, 101, 115, 117, 109, 101, 46, 112, 100, 102>>

\* "john smith resume"
ResumeName ==
    <<106, 111, 104, 110, 32, 115, 109, 105, 116, 104, 32, 114, 101, 115, 117, 109, 101>>

\* the fallback file names: "", "john_smith_resume.pdf", "/a/_-.pdf", "/a/j1s.PDF"
ContactFiles ==
    { <<>>, ResumeFile, <<47, 97, 47, 95, 45, 46, 112, 100, 102>>,
      <<47, 97, 47, 106, 49, 115, 46, 80, 68, 70>> }

InitContacts ==
    /\ Idle
    /\ \E text \in ContactTexts, f \in ContactFiles :
          call = [fn |-> "extract_contacts", text |-> text, fallback_filename |-> f,
                  done |-> FALSE,
                  result |-> [name |-> <<>>, email |-> None, phone |-> None]]

\* CVProcessor.extract_contacts(text, fallback_filename)
ContactsCall ==
    /\ call.fn = "extract_contacts"
    /\ ~call.done
    /\ call' = [call EXCEPT !.done = TRUE,
                            !.result = extract_contacts(call.text, call.fallback_filename)]
    /\ UNCHANGED <<hasMiner, queue, candidates, last, prev>>

NextContacts == ContactsCall

SpecContacts == InitContacts /\ [][NextContacts]_vars

ContactsDone == call.fn = "extract_contacts" /\ call.done

\* neither the name-like segment nor the Email/@ context gives a name for the text
\* of the call
NoNameInText == NameFromHead(call.text) = <<>> /\ NameFromContext(call.text) = <<>>

\* C12: the name extract_contacts returns is never empty, and it is the placeholder
\* "(Unknown)" when the text gives no name and the string derived from the file
\* name is empty
C12_NameNeverEmpty ==
    ContactsDone =>
        /\ call.result.name # <<>>
        /\ NoNameInText /\ FileBase(call.fallback_filename) = <<>>
              => call.result.name = Unknown

\* extract_contacts has returned the placeholder for a text that gives no name and a
\* file name of which nothing is left
C12_Witness ==
    /\ ContactsDone
    /\ NoNameInText
    /\ call.text # <<>>
    /\ call.fallback_filename # <<>>
    /\ FileBase(call.fallback_filename) = <<>>
    /\ call.result.name = Unknown

\* C17: the name is that of the first strategy that gives one, in the order
\* name-like segment, Email/@ context, file name; the file name gives its base name
\* without the extension, with "_", "-" and the characters that are no name
\* characters made spaces and the ends stripped, and the placeholder only when
\* nothing is left of it:
\* "john_smith_resume.pdf" gives "john smith resume"
C17_NameStrategyOrder ==
    ContactsDone =>
        /\ NameFromHead(call.text) # <<>> => call.result.name = NameFromHead(call.text)
        /\ NameFromHead(call.text) = <<>> /\ NameFromContext(call.text) # <<>>
              => call.result.name = NameFromContext(call.text)
        /\ NoNameInText =>
              /\ FileBase(call.fallback_filename) # <<>>
                    => call.result.name = FileBase(call.fallback_filename)
              /\ call.result.name = Unknown => FileBase(call.fallback_filename) = <<>>
              /\ call.fallback_filename = ResumeFile => call.result.name = ResumeName

\* extract_contacts has named a Candidate "john smith resume" after its file, for a
\* text that holds letters but gives no name
C17_Witness ==
    /\ ContactsDone
    /\ NoNameInText
    /\ \E i \in 1..Len(call.text) : IsAlpha(call.text[i])
    /\ call.fallback_filename = ResumeFile
    /\ call.result.name = ResumeName

====
